---- MODULE Spec2Model ----
(***************************************************************************)
(* Filler-word remover for speech-to-text transcripts                      *)
(* (livekit-plugins-filler-remover).                                       *)
(*                                                                         *)
(* FillerRemoverSTT wraps an STT engine; FilteredRecognizeStream wraps the *)
(* engine's event stream.  Texts are sequences of one-character strings,   *)
(* so that split / lower / join / strip are computed character by          *)
(* character, as the Python string methods compute them.                   *)
(***************************************************************************)
EXTENDS Naturals, Sequences, FiniteSets

VARIABLES
    filler_words,   \* self._filler_words: the word list, lower-cased at construction
    events,         \* the underlying stream's script (MockRecognizeStream._events)
    index,          \* the underlying stream's position (MockRecognizeStream._index)
    caps,           \* which lifecycle methods the underlying stream has (hasattr)
    pc,             \* per caller: "idle", or "await" inside __anext__ at the underlying pull
    from,           \* per caller: the underlying position, and the number of aclose
                    \* calls made, when its __anext__ call began
    skipped,        \* per caller: events suppressed so far by its __anext__ call
    out,            \* history: what __anext__ / recognize has returned, in order of return
    last,           \* the outcome of the operation that completed last
    lres,           \* the outcome of the lifecycle call that completed last
    closes,         \* history: number of aclose calls made on the adapter
    ended,          \* history: __anext__ has signalled end-of-sequence
    calls,          \* history: lifecycle calls issued on the adapter
    ucalls,         \* history: lifecycle calls received by the underlying stream
    fin,            \* filter function: the input text
    fout,           \* filter function: the returned text
    fstep,          \* filter function: number of applications so far
    scope           \* `async with stream`: where the block stands, what its body
                    \* raised and what left the block

vars == <<filler_words, events, index, caps, pc, from, skipped, out, last, lres,
          closes, ended, calls, ucalls, fin, fout, fstep, scope>>

(***************************************************************************)
(* Bounds                                                                  *)
(***************************************************************************)
MaxLen == 4       \* longest text given to the filter function on its own
MaxEvents == 3    \* longest underlying script drawn from the pool
MaxCalls == 3     \* lifecycle calls per behaviour
MaxCloses == 2    \* aclose calls per behaviour

(***************************************************************************)
(* Texts                                                                   *)
(***************************************************************************)
\* str.split() separates on whitespace; two whitespace characters are kept
\* apart so that "any run of whitespace" is a case of the model.
Whitespace == {" ", "\t"}

RECURSIVE SeqsUpTo(_, _)
SeqsUpTo(S, n) ==
    IF n = 0 THEN {<<>>}
    ELSE LET shorter == SeqsUpTo(S, n - 1)
         IN  shorter \cup {Append(s, x) : s \in {t \in shorter : Len(t) = n - 1}, x \in S}

\* str.lower() on one character, for the letters the model uses.
lower_char(c) ==
    CASE c = "U" -> "u"
      [] c = "H" -> "h"
      [] c = "M" -> "m"
      [] OTHER -> c

lower(word) == [i \in 1..Len(word) |-> lower_char(word[i])]

\* Variant: words separated by " " only.
RECURSIVE split_on_space_from(_, _, _, _)
split_on_space_from(text, i, cur, acc) ==
    IF i > Len(text)
    THEN IF cur = <<>> THEN acc ELSE Append(acc, cur)
    ELSE IF text[i] = " "
         THEN split_on_space_from(text, i + 1, <<>>, IF cur = <<>> THEN acc ELSE Append(acc, cur))
         ELSE split_on_space_from(text, i + 1, Append(cur, text[i]), acc)

split_on_space(text) == split_on_space_from(text, 1, <<>>, <<>>)

\* str.split(): scan left to right; whitespace ends the current word, an
\* empty current word is never emitted.
RECURSIVE split_from(_, _, _, _)
split_from(text, i, cur, acc) ==
    IF i > Len(text)
    THEN IF cur = <<>> THEN acc ELSE Append(acc, cur)
    ELSE IF text[i] \in Whitespace
         THEN split_from(text, i + 1, <<>>, IF cur = <<>> THEN acc ELSE Append(acc, cur))
         ELSE split_from(text, i + 1, Append(cur, text[i]), acc)

split(text) == split_from(text, 1, <<>>, <<>>)

\* " ".join(words)
RECURSIVE join(_)
join(words) ==
    IF words = <<>> THEN <<>>
    ELSE IF Len(words) = 1 THEN words[1]
    ELSE words[1] \o <<" ">> \o join(Tail(words))

\* str.strip(): drop leading and trailing whitespace.
RECURSIVE lstrip(_)
lstrip(text) ==
    IF text # <<>> /\ text[1] \in Whitespace THEN lstrip(Tail(text)) ELSE text

RECURSIVE rstrip(_)
rstrip(text) ==
    IF text # <<>> /\ text[Len(text)] \in Whitespace
    THEN rstrip(SubSeq(text, 1, Len(text) - 1))
    ELSE text

strip(text) == lstrip(rstrip(text))

\* `x in list`
in_list(x, list) == \E i \in 1..Len(list) : list[i] = x

\* Variant: the configured words stored as given.
init_filler_words_as_given(configured) == configured

\* FillerRemoverSTT.__init__: self._filler_words = [word.lower() for word in filler_words]
init_filler_words(configured) == [i \in 1..Len(configured) |-> lower(configured[i])]

(***************************************************************************)
(* Filter function (both copies of _remove_fillers)                        *)
(***************************************************************************)
\* Variant: the word compared as spelled, without lower().
keep_word_case_sensitive(word, fw) == ~in_list(word, fw)

\* [word for word in words if word.lower() not in self._filler_words]
keep_word(word, fw) == ~in_list(lower(word), fw)

\* Variant: only the first filler word of the text removed.
remove_fillers_first_only(text, fw) ==
    LET words == split(text)
        F == {i \in 1..Len(words) : ~keep_word(words[i], fw)}
    IN  IF F = {} THEN join(words)
        ELSE LET m == CHOOSE i \in F : \A j \in F : i <= j
             IN  join(SubSeq(words, 1, m - 1) \o SubSeq(words, m + 1, Len(words)))

\* FillerRemoverSTT._remove_fillers
remove_fillers(text, fw) ==
    join(SelectSeq(split(text), LAMBDA word : keep_word(word, fw)))

\* FilteredRecognizeStream._remove_fillers
stream_remove_fillers(text, fw) ==
    join(SelectSeq(split(text), LAMBDA word : ~in_list(lower(word), fw)))

(***************************************************************************)
(* Speech events                                                           *)
(***************************************************************************)
SpeechData(language, text, start_time, end_time, confidence) ==
    [language |-> language, text |-> text, start_time |-> start_time,
     end_time |-> end_time, confidence |-> confidence]

SpeechEvent(type, alternatives) == [type |-> type, alternatives |-> alternatives]

uh_hello == <<"u","h"," ","h","e","l","l","o">>
uh_hello_world == <<"u","h"," ","h","e","l","l","o"," ","w","o","r","l","d">>
umm == <<"u","m","m">>
Uh_ok == <<"U","h"," ","o","k">>
wait_stop == <<"w","a","i","t"," ","s","t","o","p">>
uh_okay == <<"u","h"," ","o","k","a","y">>

\* The streaming test's script (test_filler_remover.py), W = {uh, umm}.
Scenario5Events ==
    << [kind |-> "event", event |-> SpeechEvent("INTERIM_TRANSCRIPT", <<SpeechData("en", uh_hello, 0, 0, 0)>>)],
       [kind |-> "event", event |-> SpeechEvent("FINAL_TRANSCRIPT", <<SpeechData("en", uh_hello_world, 0, 0, 0)>>)],
       [kind |-> "event", event |-> SpeechEvent("INTERIM_TRANSCRIPT", <<SpeechData("en", umm, 0, 0, 0)>>)],
       [kind |-> "event", event |-> SpeechEvent("FINAL_TRANSCRIPT", <<SpeechData("en", umm, 0, 0, 0)>>)] >>

\* What one pull of the underlying stream can do: hand out an event, or raise.
StreamPool ==
    { [kind |-> "event", event |-> SpeechEvent("INTERIM_TRANSCRIPT", <<SpeechData("en", uh_hello, 1, 2, 9)>>)],
      [kind |-> "event", event |-> SpeechEvent("FINAL_TRANSCRIPT", <<SpeechData("en", umm, 0, 0, 0)>>)],
      [kind |-> "event", event |-> SpeechEvent("START_OF_SPEECH", <<>>)],
      [kind |-> "event", event |-> SpeechEvent("FINAL_TRANSCRIPT", <<>>)],
      [kind |-> "event", event |-> SpeechEvent("FINAL_TRANSCRIPT", <<SpeechData("en", <<>>, 0, 0, 0)>>)],
      [kind |-> "event", event |-> SpeechEvent("INTERIM_TRANSCRIPT",
                                      <<SpeechData("en", Uh_ok, 3, 4, 8), SpeechData("hi", uh_okay, 5, 6, 7)>>)],
      [kind |-> "event", event |-> SpeechEvent("END_OF_SPEECH", <<SpeechData("en", umm, 0, 0, 0)>>)],
      [kind |-> "event", event |-> SpeechEvent("FINAL_TRANSCRIPT", <<SpeechData("en", wait_stop, 0, 0, 0)>>)],
      [kind |-> "raise", event |-> SpeechEvent("NONE", <<>>)] }

StreamFillerWords == << <<"U","h">>, <<"u","m","m">> >>   \* configured as ["Uh", "umm"]

NoEvent == SpeechEvent("NONE", <<>>)

Callers == {1, 2}
Frames == {"frame1", "frame2"}

(***************************************************************************)
(* The underlying stream (MockRecognizeStream)                             *)
(***************************************************************************)
\* Variant: an underlying stream that starts over once it has signalled
\* its end.
mock_anext_starts_over(script, i) ==
    IF i >= Len(script)
    THEN [kind |-> "stop", event |-> NoEvent, index |-> 0]
    ELSE [kind |-> script[i + 1].kind, event |-> script[i + 1].event, index |-> i + 1]

\* MockRecognizeStream.__anext__: StopAsyncIteration at the end of the
\* script, else the next item and the position advanced.  An item of kind
\* "raise" is a pull that raises.
mock_anext(script, i) ==
    IF i >= Len(script)
    THEN [kind |-> "stop", event |-> NoEvent, index |-> i]
    ELSE [kind |-> script[i + 1].kind, event |-> script[i + 1].event, index |-> i + 1]

(***************************************************************************)
(* FilteredRecognizeStream.__anext__, after the underlying pull            *)
(***************************************************************************)
\* Variant: the type test replaced by a test for alternatives.
is_transcript_by_alternatives(event) == event.alternatives # <<>>

\* event.type == INTERIM_TRANSCRIPT or event.type == FINAL_TRANSCRIPT
is_transcript(event) ==
    event.type = "INTERIM_TRANSCRIPT" \/ event.type = "FINAL_TRANSCRIPT"

\* Variant: the empty result is never skipped (as in batch mode).
skip_event_never(cleaned_text) == FALSE

\* if not cleaned_text.strip(): skip this event and get next
skip_event(cleaned_text) == strip(cleaned_text) = <<>>

\* Variant: only the first alternative replaced, the later ones kept.
new_event_keeps_other_alternatives(event, cleaned_text) ==
    SpeechEvent(event.type,
                << SpeechData(event.alternatives[1].language,
                              cleaned_text,
                              event.alternatives[1].start_time,
                              event.alternatives[1].end_time,
                              event.alternatives[1].confidence) >>
                \o Tail(event.alternatives))

\* Variant: the new alternative built from the original text.
new_event_original_text(event, cleaned_text) ==
    SpeechEvent(event.type,
                << SpeechData(event.alternatives[1].language,
                              event.alternatives[1].text,
                              event.alternatives[1].start_time,
                              event.alternatives[1].end_time,
                              event.alternatives[1].confidence) >>)

\* new_alternative / new_event: the first alternative with the cleaned text
new_event(event, cleaned_text) ==
    SpeechEvent(event.type,
                << SpeechData(event.alternatives[1].language,
                              cleaned_text,
                              event.alternatives[1].start_time,
                              event.alternatives[1].end_time,
                              event.alternatives[1].confidence) >>)

\* Variant: an upstream error caught and turned into the end of the stream.
pull_raises_error_as_stop(exc) ==
    IF exc = "UpstreamError" THEN "StopAsyncIteration" ELSE exc

\* Variant: the end of the underlying stream caught and answered with an event.
pull_raises_stop_caught(exc) == IF exc = "StopAsyncIteration" THEN "event" ELSE exc

\* event = await self._underlying_stream.__anext__() stands in no try block:
\* what the pull raises, __anext__ raises.
pull_raises(exc) == exc

\* Variant: an event that is no transcript is consumed and not returned.
anext_body_drops_non_transcript(event, fw) ==
    IF is_transcript(event)
    THEN IF event.alternatives = <<>>
         THEN [act |-> "return", event |-> event, fresh |-> FALSE]
         ELSE LET original_text == event.alternatives[1].text
                  cleaned_text == stream_remove_fillers(original_text, fw)
              IN  IF skip_event(cleaned_text)
                  THEN [act |-> "recurse", event |-> NoEvent, fresh |-> FALSE]
                  ELSE [act |-> "return", event |-> new_event(event, cleaned_text),
                        fresh |-> TRUE]
    ELSE [act |-> "recurse", event |-> NoEvent, fresh |-> FALSE]

\* Variant: a transcript the filter leaves as it is is skipped.
anext_body_skips_unchanged(event, fw) ==
    IF is_transcript(event)
    THEN IF event.alternatives = <<>>
         THEN [act |-> "return", event |-> event, fresh |-> FALSE]
         ELSE LET original_text == event.alternatives[1].text
                  cleaned_text == stream_remove_fillers(original_text, fw)
              IN  IF skip_event(cleaned_text) \/ cleaned_text = original_text
                  THEN [act |-> "recurse", event |-> NoEvent, fresh |-> FALSE]
                  ELSE [act |-> "return", event |-> new_event(event, cleaned_text),
                        fresh |-> TRUE]
    ELSE [act |-> "return", event |-> event, fresh |-> FALSE]

\* Variant: a transcript without alternatives is skipped like an empty one.
anext_body_skips_no_alternatives(event, fw) ==
    IF is_transcript(event)
    THEN IF event.alternatives = <<>>
         THEN [act |-> "recurse", event |-> NoEvent, fresh |-> FALSE]
         ELSE LET original_text == event.alternatives[1].text
                  cleaned_text == stream_remove_fillers(original_text, fw)
              IN  IF skip_event(cleaned_text)
                  THEN [act |-> "recurse", event |-> NoEvent, fresh |-> FALSE]
                  ELSE [act |-> "return", event |-> new_event(event, cleaned_text),
                        fresh |-> TRUE]
    ELSE [act |-> "return", event |-> event, fresh |-> FALSE]

\* What __anext__ does with a pulled event: return it, return a new event,
\* or recurse into __anext__.
anext_body(event, fw) ==
    IF is_transcript(event)
    THEN IF event.alternatives = <<>>
         THEN [act |-> "return", event |-> event, fresh |-> FALSE]
         ELSE LET original_text == event.alternatives[1].text
                  cleaned_text == stream_remove_fillers(original_text, fw)
              IN  IF skip_event(cleaned_text)
                  THEN [act |-> "recurse", event |-> NoEvent, fresh |-> FALSE]
                  ELSE [act |-> "return", event |-> new_event(event, cleaned_text),
                        fresh |-> TRUE]
    ELSE [act |-> "return", event |-> event, fresh |-> FALSE]

\* How an operation ended: what it returned or raised, the underlying
\* position it came from, and where and when the call had begun.
Outcome(op, kind, event, src, fresh, frm, skp) ==
    [op |-> op, kind |-> kind, event |-> event, src |-> src, fresh |-> fresh,
     from |-> frm.index, closed |-> frm.closes >= 1, after_end |-> frm.ended,
     skipped |-> skp]

NotStarted == [index |-> 0, closes |-> 0, ended |-> FALSE]

NoOutcome == Outcome("none", "none", NoEvent, 0, FALSE, NotStarted, 0)

\* __anext__ is called: it runs to the await on the underlying pull.
AnextCall(c) ==
    /\ pc[c] = "idle"
    /\ pc' = [pc EXCEPT ![c] = "await"]
    /\ from' = [from EXCEPT ![c] = [index |-> index, closes |-> closes, ended |-> ended]]
    /\ skipped' = [skipped EXCEPT ![c] = 0]
    /\ UNCHANGED <<filler_words, events, index, caps, out, last, lres, closes, ended,
                   calls, ucalls, fin, fout, fstep, scope>>

\* Variant: the call pulls at the position it worked out for itself, the
\* position at its start plus the events it has skipped.
pull_position_of_call(c) == from[c].index + skipped[c]

\* self._underlying_stream.__anext__(): the underlying stream holds the
\* position, whoever pulls.
pull_position(c) == index

\* Variant: after a filler-only event the call makes no further pull and
\* never returns.
AnextResumeStalls(c) ==
    /\ pc[c] = "await"
    /\ LET r == mock_anext(events, index)
           b == anext_body(r.event, filler_words)
           exc == pull_raises(IF r.kind = "stop" THEN "StopAsyncIteration"
                              ELSE "UpstreamError")
       IN  /\ index' = r.index
           /\ IF r.kind \in {"stop", "raise"}
              THEN /\ last' = Outcome("anext", exc, NoEvent, r.index, FALSE,
                                      from[c], skipped[c])
                   /\ ended' = (ended \/ exc = "StopAsyncIteration")
                   /\ pc' = [pc EXCEPT ![c] = "idle"]
                   /\ UNCHANGED <<skipped, out>>
              ELSE IF b.act = "recurse"
              THEN /\ pc' = [pc EXCEPT ![c] = "stalled"]
                   /\ UNCHANGED <<skipped, out, last, ended>>
              ELSE /\ last' = Outcome("anext", "event", b.event, r.index, b.fresh,
                                      from[c], skipped[c])
                   /\ out' = Append(out, [op |-> "anext", event |-> b.event,
                                          src |-> r.index, fresh |-> b.fresh])
                   /\ pc' = [pc EXCEPT ![c] = "idle"]
                   /\ UNCHANGED <<skipped, ended>>
    /\ UNCHANGED <<filler_words, events, caps, from, lres, closes, calls, ucalls,
                   fin, fout, fstep, scope>>

\* The underlying pull completes and __anext__ runs on to its next await
\* (the recursive call's pull) or to its return.
AnextResume(c) ==
    /\ pc[c] = "await"
    /\ LET r == mock_anext(events, pull_position(c))
           b == anext_body(r.event, filler_words)
           exc == pull_raises(IF r.kind = "stop" THEN "StopAsyncIteration"
                              ELSE "UpstreamError")
       IN  /\ index' = r.index
           /\ IF r.kind \in {"stop", "raise"}
              THEN /\ last' = Outcome("anext", exc, NoEvent, r.index, FALSE,
                                      from[c], skipped[c])
                   /\ ended' = (ended \/ exc = "StopAsyncIteration")
                   /\ out' = IF exc = "event"
                             THEN Append(out, [op |-> "anext", event |-> NoEvent,
                                               src |-> r.index, fresh |-> TRUE])
                             ELSE out
                   /\ pc' = [pc EXCEPT ![c] = "idle"]
                   /\ UNCHANGED skipped
              ELSE IF b.act = "recurse"
              THEN /\ skipped' = [skipped EXCEPT ![c] = @ + 1]
                   /\ UNCHANGED <<pc, out, last, ended>>
              ELSE /\ last' = Outcome("anext", "event", b.event, r.index, b.fresh,
                                      from[c], skipped[c])
                   /\ out' = Append(out, [op |-> "anext", event |-> b.event,
                                          src |-> r.index, fresh |-> b.fresh])
                   /\ pc' = [pc EXCEPT ![c] = "idle"]
                   /\ UNCHANGED <<skipped, ended>>
    /\ UNCHANGED <<filler_words, events, caps, from, lres, closes, calls, ucalls,
                   fin, fout, fstep, scope>>

(***************************************************************************)
(* Lifecycle proxies                                                       *)
(***************************************************************************)
Open == closes = 0 /\ ~ended

Call(op, arg) == [op |-> op, arg |-> arg, open |-> Open]

\* hasattr(self._underlying_stream, "aclose") guards the call
aclose_forwards(has) == has.aclose

\* Variant: the underlying aclose called without the hasattr guard.
aclose_outcome_unguarded(has) == IF has.aclose THEN "ok" ELSE "AttributeError"

\* aclose awaits the underlying aclose or skips it; either way it returns None
aclose_outcome(has) == "ok"

\* FilteredRecognizeStream.aclose; MockRecognizeStream.aclose is `pass`.
Aclose ==
    /\ closes < MaxCloses
    /\ Len(calls) < MaxCalls
    /\ closes' = closes + 1
    /\ calls' = Append(calls, Call("aclose", "none"))
    /\ ucalls' = IF aclose_forwards(caps) THEN Append(ucalls, Call("aclose", "none"))
                 ELSE ucalls
    /\ lres' = aclose_outcome(caps)
    /\ UNCHANGED <<filler_words, events, index, caps, pc, from, skipped, out, last,
                   ended, fin, fout, fstep, scope>>

\* FilteredRecognizeStream.push_frame: self._underlying_stream.push_frame(frame),
\* with no hasattr guard; on an underlying stream without the method the
\* attribute lookup raises.
PushFrame(frame) ==
    /\ Len(calls) < MaxCalls
    /\ calls' = Append(calls, Call("push_frame", frame))
    /\ IF caps.push_frame
       THEN /\ ucalls' = Append(ucalls, Call("push_frame", frame))
            /\ lres' = "ok"
       ELSE /\ lres' = "AttributeError"
            /\ UNCHANGED ucalls
    /\ UNCHANGED <<filler_words, events, index, caps, pc, from, skipped, out, last,
                   closes, ended, fin, fout, fstep, scope>>

\* Variant: flush answered by the adapter itself, never passed on.
flush_forwards_never(has) == FALSE

\* hasattr(self._underlying_stream, "flush") guards the call
flush_forwards(has) == has.flush

\* FilteredRecognizeStream.flush
Flush ==
    /\ Len(calls) < MaxCalls
    /\ calls' = Append(calls, Call("flush", "none"))
    /\ ucalls' = IF flush_forwards(caps) THEN Append(ucalls, Call("flush", "none"))
                 ELSE ucalls
    /\ lres' = "ok"
    /\ UNCHANGED <<filler_words, events, index, caps, pc, from, skipped, out, last,
                   closes, ended, fin, fout, fstep, scope>>

(***************************************************************************)
(* Streaming: one consumer iterating the adapter, closing it at any time   *)
(***************************************************************************)
Scripts == SeqsUpTo(StreamPool, MaxEvents) \cup {Scenario5Events}

NoScope == [phase |-> "outside", raised |-> "none", left |-> "none"]

InitCommon ==
    /\ pc = [c \in Callers |-> "idle"]
    /\ from = [c \in Callers |-> NotStarted]
    /\ skipped = [c \in Callers |-> 0]
    /\ index = 0
    /\ out = <<>>
    /\ last = NoOutcome
    /\ lres = "none"
    /\ closes = 0
    /\ ended = FALSE
    /\ calls = <<>>
    /\ ucalls = <<>>
    /\ scope = NoScope

Init ==
    /\ InitCommon
    /\ filler_words = init_filler_words(StreamFillerWords)
    /\ events \in Scripts
    /\ caps \in {[push_frame |-> FALSE, flush |-> FALSE, aclose |-> a] : a \in BOOLEAN}
    /\ fin = <<>>
    /\ fout = <<>>
    /\ fstep = 0

Next ==
    \/ AnextCall(1)
    \/ AnextResume(1)
    \/ Aclose

Spec == Init /\ [][Next]_vars

(***************************************************************************)
(* Lifecycle: push_frame, flush and aclose in any order, over underlying   *)
(* streams with and without each of the three methods                      *)
(***************************************************************************)
InitLife ==
    /\ InitCommon
    /\ filler_words = init_filler_words(StreamFillerWords)
    /\ events = Scenario5Events
    /\ caps \in [{"push_frame", "flush", "aclose"} -> BOOLEAN]
    /\ fin = <<>>
    /\ fout = <<>>
    /\ fstep = 0

NextLife ==
    \/ \E frame \in Frames : PushFrame(frame)
    \/ Flush
    \/ Aclose
    \/ AnextCall(1)
    \/ AnextResume(1)

SpecLife == InitLife /\ [][NextLife]_vars

(***************************************************************************)
(* Draining: get-next over finite underlying streams on which every pull   *)
(* completes                                                               *)
(***************************************************************************)
\* Filler-only events, an event that survives, an event that is no
\* transcript, and a pull that raises.
DrainPool ==
    { item \in StreamPool :
        \/ item.kind = "raise"
        \/ item.event.type = "START_OF_SPEECH"
        \/ /\ item.event.type \in {"INTERIM_TRANSCRIPT", "FINAL_TRANSCRIPT"}
           /\ Len(item.event.alternatives) = 1
           /\ item.event.alternatives[1].text \in {umm, <<>>, uh_hello} }

InitDrain ==
    /\ InitCommon
    /\ filler_words = init_filler_words(StreamFillerWords)
    /\ events \in SeqsUpTo(DrainPool, MaxEvents)
    /\ caps = [push_frame |-> FALSE, flush |-> FALSE, aclose |-> TRUE]
    /\ fin = <<>>
    /\ fout = <<>>
    /\ fstep = 0

NextDrain ==
    \/ AnextCall(1)
    \/ AnextResume(1)

\* The awaited pull of the underlying stream eventually completes.
SpecDrain == InitDrain /\ [][NextDrain]_vars /\ WF_vars(AnextResume(1))

(***************************************************************************)
(* Two get-next calls outstanding at once on one adapter                   *)
(***************************************************************************)
InitInterleave ==
    /\ InitCommon
    /\ filler_words = init_filler_words(StreamFillerWords)
    /\ events \in SeqsUpTo(DrainPool, MaxEvents)
    /\ caps = [push_frame |-> FALSE, flush |-> FALSE, aclose |-> TRUE]
    /\ fin = <<>>
    /\ fout = <<>>
    /\ fstep = 0

\* Each caller calls __anext__ and is resumed when its pull completes, in
\* any order.
NextInterleave ==
    \E c \in Callers :
        \/ AnextCall(c)
        \/ AnextResume(c)

SpecInterleave == InitInterleave /\ [][NextInterleave]_vars

(***************************************************************************)
(* Scoped use: `async with stream:` around a body that reads events        *)
(***************************************************************************)
\* What a body can end with: it completes, or it raises.
BodyExits == {"none", "BodyError"}

\* Variant: __aexit__ returning a true value, which suppresses the exception.
aexit_returns_true(exc_type) == TRUE

\* __aexit__: return False
aexit_returns(exc_type) == FALSE

\* FilteredRecognizeStream.__aenter__: return self
Aenter ==
    /\ scope.phase = "outside"
    /\ scope' = [scope EXCEPT !.phase = "inside"]
    /\ UNCHANGED <<filler_words, events, index, caps, pc, from, skipped, out, last, lres,
                   closes, ended, calls, ucalls, fin, fout, fstep>>

\* FilteredRecognizeStream.__aexit__(exc_type, exc_val, exc_tb), entered
\* when the body has completed (exc_type None) or raised: await
\* self.aclose(), then return False.  The exception leaves the scope unless
\* the returned value is true.
Aexit(exc_type) ==
    /\ scope.phase = "inside"
    /\ pc[1] = "idle"
    /\ closes' = closes + 1
    /\ calls' = Append(calls, Call("aclose", "none"))
    /\ ucalls' = IF aclose_forwards(caps) THEN Append(ucalls, Call("aclose", "none"))
                 ELSE ucalls
    /\ lres' = aclose_outcome(caps)
    /\ scope' = [phase |-> "exited",
                 raised |-> exc_type,
                 left |-> IF exc_type # "none" /\ aexit_returns(exc_type)
                          THEN "none" ELSE exc_type]
    /\ UNCHANGED <<filler_words, events, index, caps, pc, from, skipped, out, last,
                   ended, fin, fout, fstep>>

InitScope ==
    /\ InitCommon
    /\ filler_words = init_filler_words(StreamFillerWords)
    /\ events \in SeqsUpTo(StreamPool, MaxEvents - 1) \cup {Scenario5Events}
    /\ caps \in {[push_frame |-> FALSE, flush |-> FALSE, aclose |-> a] : a \in BOOLEAN}
    /\ fin = <<>>
    /\ fout = <<>>
    /\ fstep = 0

NextScope ==
    \/ Aenter
    \/ scope.phase = "inside" /\ AnextCall(1)
    \/ scope.phase = "inside" /\ AnextResume(1)
    \/ \E exc_type \in BodyExits : Aexit(exc_type)

SpecScope == InitScope /\ [][NextScope]_vars

(***************************************************************************)
(* The earlier wrapper (filler_remover_stt.py): FillerRemoverSTT.stream is *)
(* an async generator over the underlying stream                           *)
(***************************************************************************)
\* The body of `async for event in stream`: yield the event, yield a new
\* event, continue with the next one, or raise.  event.alternatives[0] is
\* read with no test for an empty list.
legacy_stream_body(event, fw) ==
    IF event.type = "INTERIM_TRANSCRIPT" \/ event.type = "FINAL_TRANSCRIPT"
    THEN IF event.alternatives = <<>>
         THEN [act |-> "raise", event |-> NoEvent, fresh |-> FALSE]
         ELSE LET original_text == event.alternatives[1].text
                  cleaned_text == remove_fillers(original_text, fw)
              IN  IF strip(cleaned_text) = <<>>
                  THEN [act |-> "continue", event |-> NoEvent, fresh |-> FALSE]
                  ELSE [act |-> "yield",
                        event |-> SpeechEvent(event.type,
                                     << SpeechData(event.alternatives[1].language,
                                                   cleaned_text,
                                                   event.alternatives[1].start_time,
                                                   event.alternatives[1].end_time,
                                                   event.alternatives[1].confidence) >>),
                        fresh |-> TRUE]
    ELSE [act |-> "yield", event |-> event, fresh |-> FALSE]

\* A generator that has returned or raised is finished: every later
\* __anext__ on it raises StopAsyncIteration.
legacy_finished ==
    last.op = "stream" /\ last.kind \in {"StopAsyncIteration", "UpstreamError", "IndexError"}

\* The consumer asks the generator for its next event.
LegacyStreamCall(c) ==
    /\ pc[c] = "idle"
    /\ pc' = [pc EXCEPT ![c] = "await"]
    /\ from' = [from EXCEPT ![c] = [index |-> index, closes |-> closes, ended |-> ended]]
    /\ skipped' = [skipped EXCEPT ![c] = 0]
    /\ UNCHANGED <<filler_words, events, index, caps, out, last, lres, closes, ended,
                   calls, ucalls, fin, fout, fstep, scope>>

\* The generator runs on: one turn of the loop, up to its next pull, its
\* yield or its end.
LegacyStreamResume(c) ==
    /\ pc[c] = "await"
    /\ LET r == mock_anext(events, index)
           b == legacy_stream_body(r.event, filler_words)
       IN  IF legacy_finished \/ r.kind = "stop"
           THEN /\ last' = Outcome("stream", "StopAsyncIteration", NoEvent, index, FALSE,
                                   from[c], skipped[c])
                /\ ended' = TRUE
                /\ pc' = [pc EXCEPT ![c] = "idle"]
                /\ UNCHANGED <<index, out, skipped>>
           ELSE /\ index' = r.index
                /\ IF r.kind = "raise" \/ b.act = "raise"
                   THEN /\ last' = Outcome("stream",
                                           IF r.kind = "raise" THEN "UpstreamError"
                                           ELSE "IndexError",
                                           NoEvent, r.index, FALSE, from[c], skipped[c])
                        /\ pc' = [pc EXCEPT ![c] = "idle"]
                        /\ UNCHANGED <<out, skipped, ended>>
                   ELSE IF b.act = "continue"
                   THEN /\ skipped' = [skipped EXCEPT ![c] = @ + 1]
                        /\ UNCHANGED <<pc, out, last, ended>>
                   ELSE /\ last' = Outcome("stream", "event", b.event, r.index, b.fresh,
                                           from[c], skipped[c])
                        /\ out' = Append(out, [op |-> "stream", event |-> b.event,
                                               src |-> r.index, fresh |-> b.fresh])
                        /\ pc' = [pc EXCEPT ![c] = "idle"]
                        /\ UNCHANGED <<skipped, ended>>
    /\ UNCHANGED <<filler_words, events, caps, from, lres, closes, calls, ucalls,
                   fin, fout, fstep, scope>>

InitLegacy ==
    /\ InitCommon
    /\ filler_words = init_filler_words(StreamFillerWords)
    /\ events \in Scripts
    /\ caps = [push_frame |-> FALSE, flush |-> FALSE, aclose |-> TRUE]
    /\ fin = <<>>
    /\ fout = <<>>
    /\ fstep = 0

NextLegacy ==
    \/ LegacyStreamCall(1)
    \/ LegacyStreamResume(1)

SpecLegacy == InitLegacy /\ [][NextLegacy]_vars

(***************************************************************************)
(* Batch: FillerRemoverSTT._recognize_impl over an engine that answers     *)
(* each one-shot call from a script (MockSTT.transcripts)                  *)
(***************************************************************************)
default_response ==
    <<"d","e","f","a","u","l","t"," ","r","e","s","p","o","n","s","e">>

\* What one recognize call of the underlying engine can do.
BatchPool ==
    { [kind |-> "event", event |-> SpeechEvent("FINAL_TRANSCRIPT", <<SpeechData("en", umm, 1, 2, 9)>>)],
      [kind |-> "event", event |-> SpeechEvent("FINAL_TRANSCRIPT", <<SpeechData("en", uh_hello, 0, 0, 0)>>)],
      [kind |-> "event", event |-> SpeechEvent("FINAL_TRANSCRIPT", <<>>)],
      [kind |-> "event", event |-> SpeechEvent("FINAL_TRANSCRIPT", <<SpeechData("en", <<>>, 0, 0, 0)>>)],
      [kind |-> "event", event |-> SpeechEvent("FINAL_TRANSCRIPT",
                                      <<SpeechData("en", Uh_ok, 3, 4, 8), SpeechData("hi", uh_okay, 5, 6, 7)>>)],
      [kind |-> "raise", event |-> SpeechEvent("NONE", <<>>)] }

\* buffer, language, conn_options of a recognize call
RecognizeArgs == { <<"buffer1", "NOT_GIVEN", "conn1">>, <<"buffer2", "en", "conn2">> }

\* MockSTT._recognize_impl: the next item of the script, and "default
\* response" once the script is used up.
mock_recognize(script, i) ==
    IF i < Len(script)
    THEN [kind |-> script[i + 1].kind, event |-> script[i + 1].event, index |-> i + 1]
    ELSE [kind |-> "event",
          event |-> SpeechEvent("FINAL_TRANSCRIPT",
                                <<SpeechData("en", default_response, 0, 0, 0)>>),
          index |-> i]

\* Variant: an answer without alternatives replaced by a new event with one
\* empty alternative.
recognize_body_rebuilds_empty(event, fw) ==
    IF event.alternatives # <<>>
    THEN [event |-> new_event(event, remove_fillers(event.alternatives[1].text, fw)),
          fresh |-> TRUE]
    ELSE [event |-> SpeechEvent(event.type, << SpeechData("en", <<>>, 0, 0, 0) >>),
          fresh |-> TRUE]

\* Variant: a new event is built only when some text is left.
recognize_body_keeps_original_when_empty(event, fw) ==
    IF event.alternatives # <<>>
       /\ remove_fillers(event.alternatives[1].text, fw) # <<>>
    THEN [event |-> new_event(event, remove_fillers(event.alternatives[1].text, fw)),
          fresh |-> TRUE]
    ELSE [event |-> event, fresh |-> FALSE]

\* _recognize_impl after the underlying call: a new event with the cleaned
\* text of the first alternative, or the event itself when it has none.
recognize_body(event, fw) ==
    IF event.alternatives # <<>>
    THEN LET original_text == event.alternatives[1].text
             cleaned_text == remove_fillers(original_text, fw)
         IN  [event |-> SpeechEvent(event.type,
                                    << SpeechData(event.alternatives[1].language,
                                                  cleaned_text,
                                                  event.alternatives[1].start_time,
                                                  event.alternatives[1].end_time,
                                                  event.alternatives[1].confidence) >>),
              fresh |-> TRUE]
    ELSE [event |-> event, fresh |-> FALSE]

\* Variant: the underlying engine called without the caller's language.
underlying_args_without_language(args) == <<args[1], "NOT_GIVEN", args[3]>>

\* self._underlying_stt.recognize(buffer, language=language, conn_options=conn_options)
underlying_args(args) == <<args[1], args[2], args[3]>>

\* FillerRemoverSTT._recognize_impl(buffer, language, conn_options)
Recognize(args) ==
    /\ Len(calls) < MaxCalls
    /\ LET r == mock_recognize(events, index)
           b == recognize_body(r.event, filler_words)
           n == Len(calls) + 1
       IN  /\ calls' = Append(calls, Call("recognize", args))
           /\ ucalls' = Append(ucalls, Call("recognize", underlying_args(args)))
           /\ index' = r.index
           /\ IF r.kind = "raise"
              THEN /\ last' = Outcome("recognize", pull_raises("UpstreamError"), NoEvent,
                                      n, FALSE, NotStarted, 0)
                   /\ UNCHANGED out
              ELSE /\ last' = Outcome("recognize", "event", b.event, n, b.fresh, NotStarted, 0)
                   /\ out' = Append(out, [op |-> "recognize", event |-> b.event, src |-> n,
                                          fresh |-> b.fresh])
    /\ UNCHANGED <<filler_words, events, caps, pc, from, skipped, lres, closes, ended,
                   fin, fout, fstep, scope>>

InitBatch ==
    /\ InitCommon
    /\ filler_words = init_filler_words(StreamFillerWords)
    /\ events \in SeqsUpTo(BatchPool, MaxEvents)
    /\ caps = [push_frame |-> FALSE, flush |-> FALSE, aclose |-> TRUE]
    /\ fin = <<>>
    /\ fout = <<>>
    /\ fstep = 0

NextBatch == \E args \in RecognizeArgs : Recognize(args)

SpecBatch == InitBatch /\ [][NextBatch]_vars

(***************************************************************************)
(* One wrapper used either way: its stream() read with __anext__, or its   *)
(* recognize() called, over engines that answer with transcripts           *)
(***************************************************************************)
RewritePool ==
    { item \in StreamPool \cup BatchPool :
        item.kind = "raise" \/ item.event.alternatives # <<>> }

\* The wrapper has been used for one-shot recognition.
BatchUse == calls # <<>> /\ calls[1].op = "recognize"

\* The wrapper's stream has been used.
StreamUse ==
    \/ pc[1] = "await"
    \/ last.op = "anext"
    \/ calls # <<>> /\ calls[1].op = "aclose"

InitRewrite ==
    /\ InitCommon
    /\ filler_words = init_filler_words(StreamFillerWords)
    /\ events \in SeqsUpTo(RewritePool, MaxEvents - 1)
    /\ caps = [push_frame |-> FALSE, flush |-> FALSE, aclose |-> TRUE]
    /\ fin = <<>>
    /\ fout = <<>>
    /\ fstep = 0

NextRewrite ==
    \/ ~BatchUse /\ AnextCall(1)
    \/ ~BatchUse /\ AnextResume(1)
    \/ ~BatchUse /\ Aclose
    \/ ~StreamUse /\ \E args \in RecognizeArgs : Recognize(args)

SpecRewrite == InitRewrite /\ [][NextRewrite]_vars

(***************************************************************************)
(* The filter function on its own: _remove_fillers applied to a text, and  *)
(* applied again to what it returned                                       *)
(***************************************************************************)
FilterChars == {" ", "\t", "u", "U", "h"}

FilterConfigs ==
    { <<>>,
      << <<"u">> >>,
      << <<"U">> >>,
      << <<"u","h">> >>,
      << <<"U","h">>, <<"u">> >>,
      << <<"h">>, <<"u">> >> }

InitFilter ==
    /\ InitCommon
    /\ \E configured \in FilterConfigs : filler_words = init_filler_words(configured)
    /\ events = <<>>
    /\ caps = [push_frame |-> FALSE, flush |-> FALSE, aclose |-> TRUE]
    /\ fin \in SeqsUpTo(FilterChars, MaxLen)
    /\ fout = <<>>
    /\ fstep = 0

\* FillerRemoverSTT._remove_fillers(text)
RemoveFillersSTT ==
    /\ fstep = 0
    /\ fout' = remove_fillers(fin, filler_words)
    /\ fstep' = 1
    /\ UNCHANGED <<filler_words, events, index, caps, pc, from, skipped, out, last, lres,
                   closes, ended, calls, ucalls, fin, scope>>

\* FilteredRecognizeStream._remove_fillers(text)
RemoveFillersStream ==
    /\ fstep = 0
    /\ fout' = stream_remove_fillers(fin, filler_words)
    /\ fstep' = 1
    /\ UNCHANGED <<filler_words, events, index, caps, pc, from, skipped, out, last, lres,
                   closes, ended, calls, ucalls, fin, scope>>

\* _remove_fillers applied to the text it returned
RemoveFillersAgain ==
    /\ fstep = 1
    /\ fout' = remove_fillers(fout, filler_words)
    /\ fstep' = 2
    /\ UNCHANGED <<filler_words, events, index, caps, pc, from, skipped, out, last, lres,
                   closes, ended, calls, ucalls, fin, scope>>

NextFilter ==
    \/ RemoveFillersSTT
    \/ RemoveFillersStream
    \/ RemoveFillersAgain

SpecFilter == InitFilter /\ [][NextFilter]_vars

(***************************************************************************)
(* Properties of the stream adapter                                        *)
(***************************************************************************)
\* An INTERIM or FINAL transcript event with at least one alternative whose
\* first alternative's text the filter function reduces to the empty text.
FillerOnly(item) ==
    /\ item.kind = "event"
    /\ item.event.type \in {"INTERIM_TRANSCRIPT", "FINAL_TRANSCRIPT"}
    /\ Len(item.event.alternatives) >= 1
    /\ remove_fillers(item.event.alternatives[1].text, filler_words) = <<>>

Pulled == 1..index

\* The positions among the first n of the script that hold an event which
\* is not filler-only, in ascending order.
RECURSIVE Surviving(_)
Surviving(n) ==
    IF n = 0 THEN <<>>
    ELSE IF events[n].kind = "event" /\ ~FillerOnly(events[n])
         THEN Append(Surviving(n - 1), n)
         ELSE Surviving(n - 1)

Sources == [i \in 1..Len(out) |-> out[i].src]

\* C1 (streaming suppression): no event returned by __anext__ comes from a
\* filler-only transcript event; every such event pulled so far was
\* consumed and left no trace in the output.
C1_StreamingSuppression ==
    /\ \A i \in 1..Len(out) : ~FillerOnly(events[out[i].src])
    /\ \A j \in Pulled : FillerOnly(events[j]) => \A i \in 1..Len(out) : out[i].src # j
    /\ (last.op = "anext" /\ last.kind = "event") => ~FillerOnly(events[last.src])

C1_Witness ==
    /\ pc[1] = "idle"
    /\ last.kind = "event"
    /\ last.skipped >= 1
    /\ \E j \in Pulled : FillerOnly(events[j]) /\ events[j].event.alternatives[1].text # <<>>

\* C2 (ordering and count): the events returned so far come, one each and in
\* order, from the surviving events pulled so far; once end-of-sequence has
\* been signalled, N - M events have been returned, for N underlying events
\* of which M are filler-only.
C2_OrderingAndCount ==
    /\ Sources = Surviving(index)
    /\ \A i \in 1..Len(out) :
          LET o == events[out[i].src].event
          IN  /\ out[i].event.type = o.type
              /\ \/ out[i].event = o
                 \/ out[i].event.alternatives[1].text =
                        remove_fillers(o.alternatives[1].text, filler_words)
    /\ ended =>
          Len(out) = Cardinality({j \in 1..Len(events) : events[j].kind = "event"})
                     - Cardinality({j \in 1..Len(events) : FillerOnly(events[j])})

C2_Witness ==
    /\ ended
    /\ Len(out) = 2
    /\ Len(events) = 3
    /\ FillerOnly(events[2])
    /\ \A j \in 1..Len(events) : events[j].kind = "event"

Scenario5Output ==
    << SpeechEvent("INTERIM_TRANSCRIPT", <<SpeechData("en", <<"h","e","l","l","o">>, 0, 0, 0)>>),
       SpeechEvent("FINAL_TRANSCRIPT",
                   <<SpeechData("en", <<"h","e","l","l","o"," ","w","o","r","l","d">>, 0, 0, 0)>>) >>

\* C3 (end-of-sequence): a step in which __anext__ completes on an exhausted
\* underlying stream signals StopAsyncIteration and returns no event, also
\* after skipping; on the streaming test's script the events returned by
\* then are exactly hello (INTERIM) and hello world (FINAL).
C3_EndOfSequence ==
    [][(pc[1] = "await" /\ index = Len(events) /\ pc'[1] = "idle") =>
          /\ last'.op = "anext"
          /\ last'.kind = "StopAsyncIteration"
          /\ out' = out
          /\ events = Scenario5Events =>
                [i \in 1..Len(out') |-> out'[i].event] = Scenario5Output]_vars

C3_Witness ==
    /\ events = Scenario5Events
    /\ ended
    /\ last.kind = "StopAsyncIteration"
    /\ last.skipped = 2
    /\ Len(out) = 2

\* C4 (non-transcript pass-through): every pulled event whose type is neither
\* INTERIM nor FINAL transcript has been returned as the same event, not a
\* rebuilt one, and the returned events keep the order of the pulls.
C4_NonTranscriptPassThrough ==
    /\ \A j \in Pulled :
          (events[j].kind = "event"
           /\ events[j].event.type \notin {"INTERIM_TRANSCRIPT", "FINAL_TRANSCRIPT"})
          => \E i \in 1..Len(out) :
                /\ out[i].src = j
                /\ out[i].event = events[j].event
                /\ ~out[i].fresh
    /\ \A i, k \in 1..Len(out) : i < k => out[i].src < out[k].src

C4_Witness ==
    /\ Len(out) >= 2
    /\ \E i \in 2..Len(out) :
          /\ out[i].event.type = "END_OF_SPEECH"
          /\ out[i].event.alternatives # <<>>
          /\ remove_fillers(out[i].event.alternatives[1].text, filler_words) = <<>>

\* C5 (no synthetic events): every returned event comes from one underlying
\* event pulled during the call that returned it, and is that event itself
\* or a new event carrying the filtered text of its first alternative; no
\* underlying event is returned twice.
C5_NoSyntheticEvents ==
    /\ \A i \in 1..Len(out) :
          /\ out[i].src \in Pulled
          /\ events[out[i].src].kind = "event"
          /\ LET o == events[out[i].src].event
             IN  \/ ~out[i].fresh /\ out[i].event = o
                 \/ /\ out[i].fresh
                    /\ o.alternatives # <<>>
                    /\ out[i].event.alternatives[1].text =
                           remove_fillers(o.alternatives[1].text, filler_words)
    /\ \A i, k \in 1..Len(out) : i # k => out[i].src # out[k].src
    /\ (last.op = "anext" /\ last.kind = "event") =>
          /\ last.src > last.from
          /\ last.src <= index

C5_Witness ==
    /\ Len(out) = 2
    /\ out[1].fresh
    /\ out[1].event.alternatives[1].text # events[out[1].src].event.alternatives[1].text
    /\ ~out[2].fresh

(***************************************************************************)
(* Properties of the filter function                                       *)
(***************************************************************************)
\* The whitespace-delimited tokens of a text, stated without scanning: the
\* maximal runs of non-whitespace characters, from left to right.
TokenSpans(text) ==
    { sp \in (1..Len(text)) \X (1..Len(text)) :
        /\ sp[1] <= sp[2]
        /\ \A k \in sp[1]..sp[2] : text[k] \notin Whitespace
        /\ (sp[1] = 1 \/ text[sp[1] - 1] \in Whitespace)
        /\ (sp[2] = Len(text) \/ text[sp[2] + 1] \in Whitespace) }

TokensOf(text) ==
    LET S == TokenSpans(text)
        nth(k) == CHOOSE sp \in S : Cardinality({q \in S : q[1] < sp[1]}) = k - 1
    IN  [k \in 1..Cardinality(S) |-> SubSeq(text, nth(k)[1], nth(k)[2])]

LowerCased(token) == [k \in 1..Len(token) |-> lower_char(token[k])]

IsFiller(token, W) == \E n \in 1..Len(W) : W[n] = LowerCased(token)

\* A text made of tokens joined by single spaces: no leading or trailing
\* whitespace, no whitespace but " ", no two spaces in a row.
SingleSpaced(text) ==
    /\ \A k \in 1..Len(text) : text[k] \in Whitespace => text[k] = " "
    /\ text # <<>> => (text[1] # " " /\ text[Len(text)] # " ")
    /\ \A k \in 1..(Len(text) - 1) : ~(text[k] = " " /\ text[k + 1] = " ")

spaced_uh_hello == <<" "," ","u","h"," "," ","h","e","l","l","o"," "," ">>

\* C6 (filter result): the returned text is single-spaced and its tokens are
\* exactly the tokens of the input whose lower-cased form is not in the word
\* list, in order and as spelled; filter("  uh  hello  ", {uh}) = "hello".
C6_FilterResult ==
    /\ fstep >= 1 =>
          /\ SingleSpaced(fout)
          /\ fstep = 1 =>
                TokensOf(fout) =
                    SelectSeq(TokensOf(fin), LAMBDA t : ~IsFiller(t, filler_words))
    /\ remove_fillers(spaced_uh_hello, << <<"u","h">> >>) = <<"h","e","l","l","o">>
    /\ stream_remove_fillers(spaced_uh_hello, << <<"u","h">> >>) = <<"h","e","l","l","o">>

C6_Witness ==
    /\ fstep = 1
    /\ fin = <<"\t", "U", " ", "h">>
    /\ filler_words = << <<"u">> >>
    /\ fout = <<"h">>

(***************************************************************************)
(* Properties of the batch adapter                                         *)
(***************************************************************************)
\* What the underlying engine answered to its k-th recognize call.
UnderlyingResult(k) ==
    IF k <= Len(events) THEN events[k]
    ELSE [kind |-> "event",
          event |-> SpeechEvent("FINAL_TRANSCRIPT",
                                <<SpeechData("en", default_response, 0, 0, 0)>>)]

\* C7 (batch non-suppression): every recognize call the engine answered has
\* returned exactly one event and made one underlying call; when the answer
\* has an alternative whose filtered text is empty, the returned event has
\* the answer's type and one alternative, with the empty text.
C7_BatchNonSuppression ==
    /\ Len(ucalls) = Len(calls)
    /\ \A k \in 1..Len(calls) :
          LET u == UnderlyingResult(k)
              returned == {i \in 1..Len(out) : out[i].src = k}
          IN  u.kind = "event" =>
                 /\ Cardinality(returned) = 1
                 /\ FillerOnly(u) =>
                       \A i \in returned :
                          /\ out[i].event.type = u.event.type
                          /\ Len(out[i].event.alternatives) = 1
                          /\ out[i].event.alternatives[1].text = <<>>
    /\ (last.op = "recognize" /\ last.kind = "event") => last.event = out[Len(out)].event

C7_Witness ==
    /\ last.op = "recognize"
    /\ last.kind = "event"
    /\ UnderlyingResult(Len(calls)).event.alternatives # <<>>
    /\ UnderlyingResult(Len(calls)).event.alternatives[1].text = umm
    /\ last.event.alternatives[1].text = <<>>
    /\ Len(out) = 2

(***************************************************************************)
(* Properties of the lifecycle operations                                  *)
(***************************************************************************)
\* C8 (use-after-close): a get-next call made once aclose has been called
\* returns no event.  (The claim asks for more, an explicit "stream closed"
\* failure and no pull forwarded; this is the least it asks for.)
C8_UseAfterClose ==
    (last.op = "anext" /\ last.closed) => last.kind # "event"

\* C9 (close is idempotent): a second or later aclose raises nothing and
\* leaves the adapter and the underlying stream as the first aclose left
\* them.
C9_CloseIdempotent ==
    [][(closes >= 1 /\ closes' = closes + 1) =>
          /\ lres' = "ok"
          /\ <<filler_words, events, index, caps, pc, from, skipped, out, last, ended>>'
                = <<filler_words, events, index, caps, pc, from, skipped, out, last, ended>>]_vars

C9_Witness ==
    /\ closes = 2
    /\ lres = "ok"
    /\ index >= 1
    /\ Len(out) >= 1
    /\ pc[1] = "await"

\* C10 (lifecycle forwarding): the push_frame, flush and aclose calls made
\* on the open adapter for which the underlying stream has the method are,
\* one for one, in order and with the same argument, the calls the
\* underlying stream received while the adapter was open.
C10_LifecycleForwarding ==
    SelectSeq(calls, LAMBDA c : c.open /\ caps[c.op])
        = SelectSeq(ucalls, LAMBDA c : c.open)

C10_Witness ==
    /\ Len(calls) = 3
    /\ calls[1] = [op |-> "push_frame", arg |-> "frame2", open |-> TRUE]
    /\ calls[2] = [op |-> "flush", arg |-> "none", open |-> TRUE]
    /\ calls[3] = [op |-> "aclose", arg |-> "none", open |-> TRUE]
    /\ ucalls = calls
    /\ index >= 1

\* C11 (unsupported lifecycle operations are no-ops): a push_frame, flush or
\* aclose call on an adapter whose underlying stream lacks that method
\* completes without error, and the underlying stream receives nothing.
C11_UnsupportedNoOp ==
    /\ (calls # <<>> /\ ~caps[calls[Len(calls)].op]) => lres = "ok"
    /\ \A i \in 1..Len(ucalls) : caps[ucalls[i].op]

(***************************************************************************)
(* Further properties of the stream adapter                                *)
(***************************************************************************)
\* C12 (upstream failure): a get-next call ends with the upstream error
\* exactly when its last pull raised, whether that was the call's first pull
\* or a later one made while skipping; it made no pull after the raising
\* one, nothing is returned for a raising pull, and get-next ends in no
\* failure but the underlying stream's.
C12_UpstreamFailure ==
    /\ (last.op = "anext" /\ last.kind # "StopAsyncIteration") =>
          /\ last.kind \in {"event", "UpstreamError"}
          /\ last.kind = "UpstreamError" <=> events[last.src].kind = "raise"
          /\ last.src = last.from + last.skipped + 1
          /\ last.src <= index
    /\ (last.op = "anext" /\ last.kind = "StopAsyncIteration") =>
          last.src = Len(events)
    /\ \A i \in 1..Len(out) : events[out[i].src].kind = "event"

C12_Witness ==
    /\ last.op = "anext"
    /\ last.kind = "UpstreamError"
    /\ last.skipped = 1
    /\ last.src = 3
    /\ Len(out) = 1
    /\ pc[1] = "idle"

\* C13 (streaming transcript without alternatives): every pulled INTERIM or
\* FINAL event with no alternatives has been returned as the same event,
\* and no get-next ends in an error from reading a first alternative that
\* is not there.
C13_NoAlternativesPassThrough ==
    /\ last.kind # "IndexError"
    /\ \A j \in Pulled :
          (/\ events[j].kind = "event"
           /\ events[j].event.type \in {"INTERIM_TRANSCRIPT", "FINAL_TRANSCRIPT"}
           /\ events[j].event.alternatives = <<>>)
          => \E i \in 1..Len(out) :
                /\ out[i].src = j
                /\ out[i].event = events[j].event
                /\ ~out[i].fresh

(***************************************************************************)
(* Properties of rewritten events, streaming and batch                     *)
(***************************************************************************)
\* The underlying event an entry of out was made from.
Origin(e) ==
    IF e.op = "recognize" THEN UnderlyingResult(e.src).event ELSE events[e.src].event

\* C14 (shape of a rewritten event): every new event the adapter has
\* returned, from get-next or from recognize, has the type of the event it
\* was made from and exactly one alternative; that alternative has the
\* filtered text and the language, start_time, end_time and confidence of
\* the original's first alternative.
C14_RewrittenShape ==
    \A i \in 1..Len(out) :
        out[i].fresh =>
            LET o == Origin(out[i])
                n == out[i].event
            IN  /\ o.alternatives # <<>>
                /\ n.type = o.type
                /\ Len(n.alternatives) = 1
                /\ n.alternatives[1].text = remove_fillers(o.alternatives[1].text, filler_words)
                /\ TokensOf(n.alternatives[1].text)
                     = SelectSeq(TokensOf(o.alternatives[1].text),
                                 LAMBDA t : ~IsFiller(t, filler_words))
                /\ n.alternatives[1].language = o.alternatives[1].language
                /\ n.alternatives[1].start_time = o.alternatives[1].start_time
                /\ n.alternatives[1].end_time = o.alternatives[1].end_time
                /\ n.alternatives[1].confidence = o.alternatives[1].confidence

C14_Witness ==
    /\ Len(out) = 2
    /\ out[1].op = "anext" /\ out[1].fresh
    /\ Len(Origin(out[1]).alternatives) = 2
    /\ out[1].event.alternatives = << SpeechData("en", <<"o","k">>, 3, 4, 8) >>
    /\ out[2].fresh /\ Origin(out[2]).alternatives[1].text = uh_hello

(***************************************************************************)
(* Further properties of the filter function                               *)
(***************************************************************************)
\* The text with the case of every letter the texts use flipped.
SwapCase(text) ==
    [k \in 1..Len(text) |->
        CASE text[k] = "u" -> "U"
          [] text[k] = "U" -> "u"
          [] text[k] = "h" -> "H"
          [] text[k] = "H" -> "h"
          [] OTHER -> text[k]]

\* The token equals some configured word, both lower-cased.
MatchesConfigured(token, configured) ==
    \E n \in 1..Len(configured) : LowerCased(configured[n]) = LowerCased(token)

\* The word lists the wrapper may have been constructed with.
ConfiguredAs == { cfg \in FilterConfigs : init_filler_words(cfg) = filler_words }

\* C15 (case-insensitive whole-word matching): the stored word list is
\* lower-case; after one application of either copy of the filter the
\* tokens of the result are exactly the tokens of the input that equal no
\* configured word when both are lower-cased (so a token that only contains
\* a filler word stays); flipping the case of the text changes the result
\* only in case, and flipping the case of the configured words changes
\* nothing.
C15_CaseInsensitiveWholeWord ==
    /\ \A n \in 1..Len(filler_words) : filler_words[n] = LowerCased(filler_words[n])
    /\ ConfiguredAs # {}
    /\ fstep = 1 =>
          \A cfg \in ConfiguredAs :
             /\ TokensOf(fout) =
                   SelectSeq(TokensOf(fin), LAMBDA t : ~MatchesConfigured(t, cfg))
             /\ LowerCased(remove_fillers(SwapCase(fin), filler_words)) = LowerCased(fout)
             /\ LowerCased(stream_remove_fillers(SwapCase(fin), filler_words)) = LowerCased(fout)
             /\ LET flipped == [n \in 1..Len(cfg) |-> SwapCase(cfg[n])]
                IN  /\ remove_fillers(fin, init_filler_words(flipped)) = fout
                    /\ stream_remove_fillers(fin, init_filler_words(flipped)) = fout

C15_Witness ==
    /\ fstep = 1
    /\ fin = <<"U", "h", " ", "U">>
    /\ filler_words = << <<"u">> >>
    /\ fout = <<"U", "h">>

\* C16 (idempotence): applying the filter to the text it returned, with the
\* same word list, returns that text again.
C16_Idempotence ==
    [][(fstep = 1 /\ fstep' = 2) => fout' = fout]_vars

C16_Witness ==
    /\ fstep = 2
    /\ fin = <<"u", " ", "U", "h">>
    /\ filler_words = << <<"u">> >>
    /\ fout = <<"U", "h">>

\* C17 (all-filler law): a text whose tokens are all filler words, the empty
\* text and whitespace-only texts among them, is filtered to the empty
\* text by either copy of the filter.
C17_AllFiller ==
    /\ (fstep = 1 /\ \A k \in 1..Len(TokensOf(fin)) : IsFiller(TokensOf(fin)[k], filler_words))
          => fout = <<>>
    /\ remove_fillers(<<>>, filler_words) = <<>>
    /\ stream_remove_fillers(<<>>, filler_words) = <<>>
    /\ remove_fillers(<<" ", "\t", " ">>, filler_words) = <<>>
    /\ stream_remove_fillers(<<" ", "\t", " ">>, filler_words) = <<>>

C17_Witness ==
    /\ fstep = 1
    /\ fin = <<"u", "\t", "U", " ">>
    /\ filler_words = << <<"u">> >>
    /\ fout = <<>>

(***************************************************************************)
(* Properties of scoped use                                                *)
(***************************************************************************)
\* C18 (scoped use releases the stream): once the scope has been left, by
\* the body completing or by the body raising, the adapter's aclose has run
\* as the last call, the underlying aclose has been called when the
\* underlying stream has one, and the exception the body raised is the one
\* that leaves the scope.
C18_ScopedRelease ==
    scope.phase = "exited" =>
        /\ closes >= 1
        /\ calls # <<>> /\ calls[Len(calls)].op = "aclose"
        /\ caps.aclose => (ucalls # <<>> /\ ucalls[Len(ucalls)].op = "aclose")
        /\ scope.left = scope.raised

C18_Witness ==
    /\ scope = [phase |-> "exited", raised |-> "BodyError", left |-> "BodyError"]
    /\ caps.aclose
    /\ Len(out) = 1
    /\ ucalls = << [op |-> "aclose", arg |-> "none", open |-> TRUE] >>

(***************************************************************************)
(* Further properties of the batch adapter                                 *)
(***************************************************************************)
\* C19 (batch result without alternatives): every recognize call that the
\* engine answered with an event without alternatives has returned that
\* very event, not a new one.
C19_BatchNoAlternatives ==
    \A k \in 1..Len(calls) :
        (/\ calls[k].op = "recognize"
         /\ UnderlyingResult(k).kind = "event"
         /\ UnderlyingResult(k).event.alternatives = <<>>)
        => \E i \in 1..Len(out) :
              /\ out[i].src = k
              /\ out[i].op = "recognize"
              /\ out[i].event = UnderlyingResult(k).event
              /\ ~out[i].fresh

C19_Witness ==
    /\ last.op = "recognize"
    /\ last.kind = "event"
    /\ last.event = SpeechEvent("FINAL_TRANSCRIPT", <<>>)
    /\ ~last.fresh
    /\ Len(out) = 2
    /\ out[1].fresh

(***************************************************************************)
(* Texts the filter leaves unchanged, streaming                            *)
(***************************************************************************)
\* The pulled event j is a transcript with an alternative whose text the
\* filter returns as it is.
UnchangedByFilter(j) ==
    /\ events[j].kind = "event"
    /\ events[j].event.type \in {"INTERIM_TRANSCRIPT", "FINAL_TRANSCRIPT"}
    /\ events[j].event.alternatives # <<>>
    /\ stream_remove_fillers(events[j].event.alternatives[1].text, filler_words)
         = events[j].event.alternatives[1].text

\* get-next has returned an event of the type of event j with the text of
\* event j's first alternative.
ForwardedSameText(j) ==
    \E i \in 1..Len(out) :
        /\ out[i].src = j
        /\ out[i].event.type = events[j].event.type
        /\ out[i].event.alternatives # <<>>
        /\ out[i].event.alternatives[1].text = events[j].event.alternatives[1].text

\* C20 as stated (unchanged text is forwarded, the empty text included):
\* every pulled transcript event whose filtered text is its original text
\* has been forwarded with that text.
C20_UnchangedForwarded_AnyText ==
    \A j \in Pulled : UnchangedByFilter(j) => ForwardedSameText(j)

\* C20 (unchanged text is forwarded): every pulled transcript event whose
\* original text is not empty and whose filtered text is its original text
\* has been forwarded by get-next as an event of the same type with that
\* text.
C20_UnchangedForwarded ==
    \A j \in Pulled :
        (UnchangedByFilter(j) /\ events[j].event.alternatives[1].text # <<>>)
        => ForwardedSameText(j)

C20_Witness ==
    /\ index = 3
    /\ UnchangedByFilter(3)
    /\ events[3].event.alternatives[1].text = wait_stop
    /\ Len(out) = 2
    /\ out[2].src = 3 /\ out[2].fresh
    /\ out[2].event.alternatives[1].text = wait_stop

(***************************************************************************)
(* Consumption of the underlying stream                                    *)
(***************************************************************************)
\* C21 (exactly-once consumption, no read-ahead): with no get-next call in
\* progress, the events pulled so far are as many as the events returned
\* plus the filler-only events pulled; a call in progress has pulled exactly
\* the events it has skipped; and a call that returned an event after
\* skipping k events made k + 1 pulls at consecutive positions, the first k
\* of them on filler-only events.
C21_ExactlyOnce ==
    /\ pc[1] = "idle" =>
          Cardinality({j \in Pulled : events[j].kind = "event"})
            = Len(out) + Cardinality({j \in Pulled : FillerOnly(events[j])})
    /\ pc[1] = "await" => index = from[1].index + skipped[1]
    /\ (last.op = "anext" /\ last.kind = "event") =>
          /\ last.src = last.from + last.skipped + 1
          /\ last.src <= index
          /\ \A j \in (last.from + 1)..(last.src - 1) : FillerOnly(events[j])
          /\ out # <<>> /\ out[Len(out)].src <= index

C21_Witness ==
    /\ pc[1] = "idle"
    /\ last.op = "anext" /\ last.kind = "event"
    /\ last.skipped = 2 /\ last.from = 0
    /\ index = 3
    /\ Len(out) = 1

\* C22 (draining terminates): over a finite underlying stream whose pulls
\* complete, every get-next call in progress eventually completes, with an
\* event, with end-of-sequence or with the upstream error, however many
\* filler-only events it has to skip.
C22_DrainingTerminates ==
    (pc[1] = "await") ~>
        (/\ pc[1] = "idle"
         /\ last.op = "anext"
         /\ last.kind \in {"event", "StopAsyncIteration", "UpstreamError"})

C22_Witness ==
    /\ pc[1] = "idle"
    /\ last.op = "anext" /\ last.kind = "StopAsyncIteration"
    /\ last.skipped = 3 /\ last.from = 0
    /\ \A j \in 1..3 : FillerOnly(events[j])
    /\ out = <<>>

C24_ClosedNoOp ==
    \A i \in 1..Len(ucalls) : ucalls[i].open

(***************************************************************************)
(* Properties of interleaved get-next calls                                *)
(***************************************************************************)
\* C25 (interleaved get-next calls): with two calls outstanding in any
\* interleaving, no underlying event is returned twice, every pulled event
\* that is not filler-only has been returned exactly once and every
\* filler-only one not at all, and each returned event is the underlying
\* event at its position or that event with its text filtered.
C25_Interleaved ==
    /\ \A i, k \in 1..Len(out) : out[i].src = out[k].src => i = k
    /\ \A j \in Pulled :
          events[j].kind = "event" =>
             Cardinality({i \in 1..Len(out) : out[i].src = j})
               = IF FillerOnly(events[j]) THEN 0 ELSE 1
    /\ \A i \in 1..Len(out) :
          /\ out[i].src \in Pulled
          /\ events[out[i].src].kind = "event"
          /\ LET o == events[out[i].src].event
             IN  /\ out[i].event.type = o.type
                 /\ \/ out[i].event = o
                    \/ /\ o.alternatives # <<>>
                       /\ out[i].event.alternatives[1].text =
                             remove_fillers(o.alternatives[1].text, filler_words)

C25_Witness ==
    /\ pc = <<"idle", "await">>
    /\ from[1].index = 0 /\ from[2].index = 0
    /\ skipped = <<1, 1>>
    /\ index = 3
    /\ Len(out) = 1 /\ out[1].src = 3

(***************************************************************************)
(* Delegation of the batch adapter                                         *)
(***************************************************************************)
\* C26 (batch delegation without retry): the underlying engine has been
\* called once for each recognize call, in order, with that call's buffer,
\* language and connection options; a recognize call whose underlying call
\* raised ended with that error, returned no event and made no further
\* underlying call, and recognize ends with an error in no other case.
C26_BatchDelegation ==
    /\ Len(ucalls) = Len(calls)
    /\ \A k \in 1..Len(calls) :
          /\ calls[k].op = "recognize"
          /\ ucalls[k].op = "recognize"
          /\ ucalls[k].arg = calls[k].arg
    /\ index <= Len(calls)
    /\ \A k \in 1..Len(calls) :
          UnderlyingResult(k).kind = "raise" => \A i \in 1..Len(out) : out[i].src # k
    /\ last.op = "recognize" =>
          /\ last.src = Len(calls)
          /\ last.kind \in {"event", "UpstreamError"}
          /\ last.kind = "UpstreamError" <=> UnderlyingResult(Len(calls)).kind = "raise"

C26_Witness ==
    /\ last.op = "recognize"
    /\ last.kind = "UpstreamError"
    /\ Len(calls) = 2
    /\ ucalls[2].arg = <<"buffer2", "en", "conn2">>
    /\ Len(out) = 1

====
